---- MODULE Spec2Model ----
(***************************************************************************)
(* Model of src/main.cpp: a music player made of a Playlist, pluggable     *)
(* output devices (adapters), pluggable play strategies, an AudioEngine    *)
(* holding non-owning pointers, and the MusicPlayerFacade that owns them.  *)
(*                                                                         *)
(* Spec          the facade driven by one caller thread; configure*,       *)
(*               playMultiple are stepped statement by statement (pc).     *)
(* SpecStrategy  a PlayStrategy object driven directly through its public  *)
(*               interface (getNextSong / reset / setQueue) on a Playlist. *)
(***************************************************************************)
EXTENDS Integers, Sequences, FiniteSets

VARIABLES
    playlist,     \* PlaylistManager::playlist.songs (vector<Song>)
    device,       \* DeviceManager::device: the adapter it owns (NoDevice = nullptr)
    strategy,     \* MusicPlayerFacade::strategyPtr: the strategy object it owns
                  \* (NoStrategy = nullptr)
    engine,       \* AudioEngine: the three raw pointers
    pc,           \* position of the caller inside the facade
    frame,        \* arguments and locals of the call in progress
    last,         \* observation: the last call, the error it threw, the lines it
                  \* rendered and the playlist positions it read
    stable,       \* observation: the playlist has not changed since the strategy
                  \* was created or reset
    history,      \* observation: the positions returned by the successful
                  \* getNextSong calls since then, followed while stable
    configured,   \* observation: some configure* call has completed
    reconf        \* observation: the strategy was reset, or replaced by one of the
                  \* same kind, after its cursor had advanced

vars == <<playlist, device, strategy, engine, pc, frame,
          last, history, stable, configured, reconf>>

----------------------------------------------------------------------------
(* Bounds of the model *)

MaxLen == 2       \* longest playlist
MaxQueue == 2     \* longest custom queue
MaxCalls == 4     \* successful getNextSong calls followed per strategy instance
MaxCount == 2     \* largest playMultiple argument
RandMax == 2      \* rand() draws from 0..RandMax

----------------------------------------------------------------------------
(* Values *)

None == "none"

Song(t, a) == [title |-> t, artist |-> a]

Songs == {Song("Lose Yourself", "Eminem"), Song("Imagine", "John Lennon")}

DeviceType == {"BLUETOOTH", "WIRED", "HEADPHONES"}

PlayStrategyType == {"SEQUENTIAL", "RANDOM", "CUSTOM_QUEUE"}

\* the what() strings of the runtime_errors thrown
EmptyPlaylist == "Playlist is empty"
EmptyQueue == "Custom queue is empty"
IndexOutOfRange == "Queue index out of range"
NotConfigured == "AudioEngine not configured"
DeviceCreationFailed == "Failed to create device"
InvalidStrategy == "Invalid strategy type"
CastFailed == "Failed to cast to CustomQueueStrategy"

Errors == {EmptyPlaylist, EmptyQueue, IndexOutOfRange, NotConfigured,
           DeviceCreationFailed, InvalidStrategy, CastFailed}

BoundedSeq(S, n) == UNION {[1..k -> S] : k \in 0..n}

\* customQueue arguments: entries may point past the end of any playlist
Queues == BoundedSeq(0..MaxLen, MaxQueue)

Indices == 0..(MaxLen + 1)

----------------------------------------------------------------------------
(* Playlist *)

\* inserts at the front
Playlist_addSong_front(songs, song) == <<song>> \o songs

Playlist_addSong(songs, song) == Append(songs, song)

\* index <= size: erasing at end() takes the last Song with it
Playlist_removeSong_le(songs, index) ==
    IF index <= Len(songs) /\ Len(songs) > 0
    THEN LET i == IF index = Len(songs) THEN index - 1 ELSE index
         IN  SubSeq(songs, 1, i) \o SubSeq(songs, i + 2, Len(songs))
    ELSE songs

\* drops the last Song whatever the index
Playlist_removeSong_last(songs, index) ==
    IF index < Len(songs) THEN SubSeq(songs, 1, Len(songs) - 1) ELSE songs

Playlist_removeSong(songs, index) ==
    IF index < Len(songs)
    THEN SubSeq(songs, 1, index) \o SubSeq(songs, index + 2, Len(songs))
    ELSE songs

Playlist_size(songs) == Len(songs)

\* getSongs()[idx]: the vector is indexed from 0; reading past its end yields
\* an indeterminate Song
Indeterminate == Song("?", "?")

Playlist_at(songs, idx) ==
    IF idx \in 0..(Len(songs) - 1) THEN songs[idx + 1] ELSE Indeterminate

----------------------------------------------------------------------------
(* Output devices *)

\* a null unique_ptr<IAudioOutputDevice>
NoDevice == None

DeviceFactory_create(type) ==
    CASE type = "BLUETOOTH" -> "BluetoothSpeakerAdapter"
      [] type = "WIRED" -> "WiredSpeakerAdapter"
      [] type = "HEADPHONES" -> "HeadphonesAdapter"
      [] OTHER -> None

\* what the adapter of this kind hands to its API, and which API prints it
IAudioOutputDevice_playSound(kind, song) ==
    CASE kind = "BluetoothSpeakerAdapter" ->
           [api |-> "BluetoothSpeakerAPI", mode |-> "Bluetooth",
            title |-> song.title, artist |-> song.artist]
      [] kind = "WiredSpeakerAdapter" ->
           [api |-> "WiredSpeakerAPI", mode |-> "Wired",
            title |-> song.title, artist |-> song.artist]
      [] kind = "HeadphonesAdapter" ->
           [api |-> "HeadphonesAPI", mode |-> "Headphones",
            title |-> song.title, artist |-> song.artist]

RenderEvents ==
    {IAudioOutputDevice_playSound(DeviceFactory_create(t), s) :
        t \in DeviceType, s \in Songs}

----------------------------------------------------------------------------
(* Play strategies.  A strategy object is a record; the fields a variant   *)
(* does not have stay at their defaults; NoStrategy is a null             *)
(* unique_ptr<PlayStrategy>.  getNextSong returns                          *)
(* [err, idx, self]: the error thrown (None if none), the playlist         *)
(* position of the returned Song, and the object after the call.           *)

NoStrategy == [kind |-> None, index |-> 0, queueIndices |-> <<>>, pos |-> 0]

Thrown(self, e) == [err |-> e, idx |-> -1, self |-> self]

\* stops at the last track instead of wrapping
SequentialPlayStrategy_getNextSong_sat(self, songs) ==
    IF Playlist_size(songs) = 0 THEN Thrown(self, EmptyPlaylist)
    ELSE LET at == IF self.index < Playlist_size(songs) THEN self.index
                   ELSE Playlist_size(songs) - 1
         IN  [err |-> None, idx |-> at, self |-> [self EXCEPT !.index = at + 1]]

\* reads songs[index] without the modulo
SequentialPlayStrategy_getNextSong_raw(self, songs) ==
    IF Playlist_size(songs) = 0 THEN Thrown(self, EmptyPlaylist)
    ELSE [err |-> None,
          idx |-> self.index,
          self |-> [self EXCEPT !.index = (self.index + 1) % Playlist_size(songs)]]

SequentialPlayStrategy_getNextSong(self, songs) ==
    IF Playlist_size(songs) = 0 THEN Thrown(self, EmptyPlaylist)
    ELSE [err |-> None,
          idx |-> self.index % Playlist_size(songs),
          self |-> [self EXCEPT !.index = (self.index + 1) % Playlist_size(songs)]]

\* leaves index where it is
SequentialPlayStrategy_reset_noop(self) == self

SequentialPlayStrategy_reset(self) == [self EXCEPT !.index = 0]

\* rand() % (size + 1)
RandomPlayStrategy_getNextSong_off(self, songs, r) ==
    IF Playlist_size(songs) = 0 THEN Thrown(self, EmptyPlaylist)
    ELSE [err |-> None, idx |-> r % (Playlist_size(songs) + 1), self |-> self]

\* r is the value rand() returns
RandomPlayStrategy_getNextSong(self, songs, r) ==
    IF Playlist_size(songs) = 0 THEN Thrown(self, EmptyPlaylist)
    ELSE [err |-> None, idx |-> r % Playlist_size(songs), self |-> self]

RandomPlayStrategy_reset(self) == self

CustomQueueStrategy_setQueue(self, q) ==
    [self EXCEPT !.queueIndices = q, !.pos = 0]

\* reads the playlist at pos instead of at queueIndices[pos]
CustomQueueStrategy_getNextSong_pos(self, songs) ==
    IF Playlist_size(songs) = 0 THEN Thrown(self, EmptyPlaylist)
    ELSE IF self.queueIndices = <<>> THEN Thrown(self, EmptyQueue)
    ELSE LET n == Len(self.queueIndices)
             idx == self.pos % n
         IN  IF idx >= Playlist_size(songs) THEN Thrown(self, IndexOutOfRange)
             ELSE [err |-> None, idx |-> idx,
                   self |-> [self EXCEPT !.pos = (self.pos + 1) % n]]

\* validates the whole queue on every call
CustomQueueStrategy_getNextSong_eager(self, songs) ==
    IF Playlist_size(songs) = 0 THEN Thrown(self, EmptyPlaylist)
    ELSE IF self.queueIndices = <<>> THEN Thrown(self, EmptyQueue)
    ELSE LET n == Len(self.queueIndices)
             idx == self.queueIndices[(self.pos % n) + 1]
         IN  IF \E j \in 1..n : self.queueIndices[j] >= Playlist_size(songs)
             THEN Thrown(self, IndexOutOfRange)
             ELSE [err |-> None, idx |-> idx,
                   self |-> [self EXCEPT !.pos = (self.pos + 1) % n]]

\* looks at the queue before it looks at the playlist
CustomQueueStrategy_getNextSong_order(self, songs) ==
    IF self.queueIndices = <<>> THEN Thrown(self, EmptyQueue)
    ELSE IF Playlist_size(songs) = 0 THEN Thrown(self, EmptyPlaylist)
    ELSE LET n == Len(self.queueIndices)
             idx == self.queueIndices[(self.pos % n) + 1]
         IN  IF idx >= Playlist_size(songs) THEN Thrown(self, IndexOutOfRange)
             ELSE [err |-> None, idx |-> idx,
                   self |-> [self EXCEPT !.pos = (self.pos + 1) % n]]

\* steps over an entry that is out of range
CustomQueueStrategy_getNextSong_skip(self, songs) ==
    IF Playlist_size(songs) = 0 THEN Thrown(self, EmptyPlaylist)
    ELSE IF self.queueIndices = <<>> THEN Thrown(self, EmptyQueue)
    ELSE LET n == Len(self.queueIndices)
             idx == self.queueIndices[(self.pos % n) + 1]
             after == [self EXCEPT !.pos = (self.pos + 1) % n]
         IN  IF idx >= Playlist_size(songs) THEN Thrown(after, IndexOutOfRange)
             ELSE [err |-> None, idx |-> idx, self |-> after]

CustomQueueStrategy_getNextSong(self, songs) ==
    IF Playlist_size(songs) = 0 THEN Thrown(self, EmptyPlaylist)
    ELSE IF self.queueIndices = <<>> THEN Thrown(self, EmptyQueue)
    ELSE LET n == Len(self.queueIndices)
             idx == self.queueIndices[(self.pos % n) + 1]
         IN  IF idx >= Playlist_size(songs) THEN Thrown(self, IndexOutOfRange)
             ELSE [err |-> None, idx |-> idx,
                   self |-> [self EXCEPT !.pos = (self.pos + 1) % n]]

\* forgets the queue as well
CustomQueueStrategy_reset_clear(self) ==
    [self EXCEPT !.pos = 0, !.queueIndices = <<>>]

CustomQueueStrategy_reset(self) == [self EXCEPT !.pos = 0]

\* virtual dispatch: the set of outcomes (one per value rand() may return)
PlayStrategy_getNextSong(self, songs) ==
    CASE self.kind = "SEQUENTIAL" -> {SequentialPlayStrategy_getNextSong(self, songs)}
      [] self.kind = "RANDOM" ->
           {RandomPlayStrategy_getNextSong(self, songs, r) : r \in 0..RandMax}
      [] self.kind = "CUSTOM_QUEUE" -> {CustomQueueStrategy_getNextSong(self, songs)}

PlayStrategy_reset(self) ==
    CASE self.kind = "SEQUENTIAL" -> SequentialPlayStrategy_reset(self)
      [] self.kind = "RANDOM" -> RandomPlayStrategy_reset(self)
      [] self.kind = "CUSTOM_QUEUE" -> CustomQueueStrategy_reset(self)

\* a CustomQueueStrategy that starts with the queue <<0>>
StrategyManager_createStrategy_preset(type) ==
    CASE type = "SEQUENTIAL" -> [NoStrategy EXCEPT !.kind = "SEQUENTIAL"]
      [] type = "RANDOM" -> [NoStrategy EXCEPT !.kind = "RANDOM"]
      [] type = "CUSTOM_QUEUE" ->
           [NoStrategy EXCEPT !.kind = "CUSTOM_QUEUE", !.queueIndices = <<0>>]
      [] OTHER -> NoStrategy

StrategyManager_createStrategy(type) ==
    CASE type = "SEQUENTIAL" -> [NoStrategy EXCEPT !.kind = "SEQUENTIAL"]
      [] type = "RANDOM" -> [NoStrategy EXCEPT !.kind = "RANDOM"]
      [] type = "CUSTOM_QUEUE" -> [NoStrategy EXCEPT !.kind = "CUSTOM_QUEUE"]
      [] OTHER -> NoStrategy

\* the traversal cursor of a strategy object
Cursor(self) == IF self.kind = "CUSTOM_QUEUE" THEN self.pos ELSE self.index

----------------------------------------------------------------------------
(* AudioEngine.  A raw pointer is nullptr, Live (it points to the object   *)
(* its owner holds now) or Dangling (it points to an object that has been  *)
(* destroyed).                                                             *)

nullptr == "nullptr"
Live == "live"
Dangling == "dangling"

NullEngine == [playlist |-> nullptr, strategy |-> nullptr, device |-> nullptr]

\* the owner of the object p points to destroys it
Destroyed(p) == IF p = Live THEN Dangling ELSE p

\* leaves the playlist pointer as it is
AudioEngine_loadPlaylist_none(e, pl) == e

AudioEngine_loadPlaylist(e, pl) == [e EXCEPT !.playlist = pl]

AudioEngine_setDevice(e, dev) == [e EXCEPT !.device = dev]

\* keeps the strategy bound first
AudioEngine_setStrategy_keep(e, ps, obj) ==
    [engine |-> IF e.strategy = nullptr THEN [e EXCEPT !.strategy = ps] ELSE e,
     obj |-> PlayStrategy_reset(obj)]

\* strategy = ps; strategy->reset();  obj is the object ps points to
AudioEngine_setStrategy(e, ps, obj) ==
    [engine |-> [e EXCEPT !.strategy = ps], obj |-> PlayStrategy_reset(obj)]

\* the guard left out
AudioEngine_unbound_never(e) == FALSE

\* !playlist || !strategy || !device
AudioEngine_unbound(e) ==
    e.playlist = nullptr \/ e.strategy = nullptr \/ e.device = nullptr

\* Dereferencing a null or dangling pointer is undefined behaviour: the call
\* may throw anything, crash, render anything or nothing.
UndefinedOutcomes ==
    {[err |-> e, out |-> o, idx |-> -1, self |-> strategy] :
        e \in Errors \cup {None, "crash"},
        o \in {<<>>} \cup {<<ev>> : ev \in RenderEvents}}

\* catches what the strategy throws and plays the first track instead
AudioEngine_playNext_fallback ==
    IF AudioEngine_unbound(engine)
    THEN {[err |-> NotConfigured, out |-> <<>>, idx |-> -1, self |-> strategy]}
    ELSE IF engine.playlist # Live \/ engine.strategy # Live \/ engine.device # Live
    THEN UndefinedOutcomes
    ELSE {[err |-> None,
           out |-> <<IAudioOutputDevice_playSound(device,
                        Playlist_at(playlist, IF r.err = None THEN r.idx ELSE 0))>>,
           idx |-> IF r.err = None THEN r.idx ELSE 0,
           self |-> r.self] : r \in PlayStrategy_getNextSong(strategy, playlist)}

\* The outcomes of one playNext(): [err, out, idx, self] with out the lines
\* rendered (at most one), idx the playlist position read and self the
\* strategy object afterwards.
AudioEngine_playNext ==
    IF AudioEngine_unbound(engine)
    THEN {[err |-> NotConfigured, out |-> <<>>, idx |-> -1, self |-> strategy]}
    ELSE IF engine.playlist # Live \/ engine.strategy # Live \/ engine.device # Live
    THEN UndefinedOutcomes
    ELSE {[err |-> r.err,
           out |-> IF r.err = None
                   THEN <<IAudioOutputDevice_playSound(device,
                                                       Playlist_at(playlist, r.idx))>>
                   ELSE <<>>,
           idx |-> r.idx,
           self |-> r.self] : r \in PlayStrategy_getNextSong(strategy, playlist)}

----------------------------------------------------------------------------
(* Observations *)

Call(op) == [op |-> op, err |-> None, out |-> <<>>, idx |-> <<>>]

\* the call observed so far, after one more getNextSong/playNext outcome o
Observed(call, o) ==
    IF o.err = None
    THEN [call EXCEPT !.out = call.out \o o.out, !.idx = Append(call.idx, o.idx)]
    ELSE [call EXCEPT !.err = o.err]

Followed(h, o) == IF o.err = None /\ stable THEN Append(h, o.idx) ELSE h

----------------------------------------------------------------------------
(* MusicPlayerFacade: state after construction *)

\* the locals of playMultiple; the arguments of configure and configureCustom
\* are drawn at the statement that reads them
NoFrame == [count |-> 0, i |-> 0]

Init ==
    /\ playlist = <<>>
    /\ device = NoDevice
    /\ strategy = NoStrategy
    /\ engine = NullEngine
    /\ pc = "idle"
    /\ frame = NoFrame
    /\ last = Call(None)
    /\ history = <<>>
    /\ stable = TRUE
    /\ configured = FALSE
    /\ reconf = FALSE

----------------------------------------------------------------------------
(* MusicPlayerFacade: playlist operations *)

addSongToPlaylist(song) ==
    /\ pc = "idle"
    /\ Len(playlist) < MaxLen
    /\ playlist' = Playlist_addSong(playlist, song)
    /\ last' = Call("addSongToPlaylist")
    /\ stable' = FALSE
    /\ history' = <<>>
    /\ UNCHANGED <<device, strategy, engine, pc, frame, configured, reconf>>

removeSongFromPlaylist(index) ==
    /\ pc = "idle"
    /\ playlist' = Playlist_removeSong(playlist, index)
    /\ last' = Call("removeSongFromPlaylist")
    /\ stable' = (stable /\ playlist' = playlist)
    /\ history' = IF stable' THEN history ELSE <<>>
    /\ UNCHANGED <<device, strategy, engine, pc, frame, configured, reconf>>

----------------------------------------------------------------------------
(* MusicPlayerFacade::configure and configureCustom, one statement a step. *)
(* Each argument is chosen at the one statement that reads it.             *)

\* keeps the adapter it already holds
DeviceManager_selectDevice_keep(type, op, next) ==
    /\ device' = IF device = NoDevice THEN DeviceFactory_create(type) ELSE device
    /\ engine' = engine
    /\ IF device' = NoDevice
       THEN /\ last' = [Call(op) EXCEPT !.err = DeviceCreationFailed]
            /\ pc' = "idle"
            /\ frame' = NoFrame
       ELSE /\ last' = Call(op)
            /\ pc' = next

\* deviceManager.selectDevice(dt): device = DeviceFactory::create(type) builds
\* the new adapter, then the unique_ptr assignment destroys the one it held;
\* if (!device) throw
DeviceManager_selectDevice(type, op, next) ==
    /\ device' = DeviceFactory_create(type)
    /\ engine' = [engine EXCEPT !.device = Destroyed(engine.device)]
    /\ IF device' = NoDevice
       THEN /\ last' = [Call(op) EXCEPT !.err = DeviceCreationFailed]
            /\ pc' = "idle"
            /\ frame' = NoFrame
       ELSE /\ last' = Call(op)
            /\ pc' = next

\* strategyPtr = StrategyManager::createStrategy(pst) destroys the strategy
\* strategyPtr held; if (!strategyPtr) throw
Facade_createStrategy(type, next) ==
    /\ strategy' = StrategyManager_createStrategy(type)
    /\ engine' = [engine EXCEPT !.strategy = Destroyed(engine.strategy)]
    /\ IF strategy' = NoStrategy
       THEN /\ last' = [last EXCEPT !.err = InvalidStrategy]
            /\ pc' = "idle"
            /\ frame' = NoFrame
            /\ UNCHANGED <<history, stable, reconf>>
       ELSE /\ reconf' = (strategy.kind = type /\ Cursor(strategy) # 0)
            /\ history' = <<>>
            /\ stable' = TRUE
            /\ pc' = next
            /\ UNCHANGED <<last, frame>>

\* engine.setStrategy(strategyPtr.get())
Facade_setStrategy(next) ==
    /\ LET r == AudioEngine_setStrategy(engine, Live, strategy)
       IN  engine' = r.engine /\ strategy' = r.obj
    /\ history' = <<>>
    /\ stable' = TRUE
    /\ pc' = next

configure(dt) ==
    /\ pc = "idle"
    /\ frame' = NoFrame
    /\ DeviceManager_selectDevice(dt, "configure", "configure_createStrategy")
    /\ UNCHANGED <<playlist, strategy, history, stable, configured, reconf>>

configure_createStrategy(pst) ==
    /\ pc = "configure_createStrategy"
    /\ Facade_createStrategy(pst, "configure_setDevice")
    /\ UNCHANGED <<playlist, device, configured>>

configure_setDevice ==
    /\ pc = "configure_setDevice"
    /\ engine' = AudioEngine_setDevice(engine, Live)
    /\ pc' = "configure_setStrategy"
    /\ UNCHANGED <<playlist, device, strategy, frame, last, history, stable,
                   configured, reconf>>

configure_setStrategy ==
    /\ pc = "configure_setStrategy"
    /\ Facade_setStrategy("configure_loadPlaylist")
    /\ UNCHANGED <<playlist, device, frame, last, configured, reconf>>

configure_loadPlaylist ==
    /\ pc = "configure_loadPlaylist"
    /\ engine' = AudioEngine_loadPlaylist(engine, Live)
    /\ pc' = "idle"
    /\ frame' = NoFrame
    /\ configured' = TRUE
    /\ UNCHANGED <<playlist, device, strategy, last, history, stable, reconf>>

configureCustom(dt) ==
    /\ pc = "idle"
    /\ frame' = NoFrame
    /\ DeviceManager_selectDevice(dt, "configureCustom", "configureCustom_createStrategy")
    /\ UNCHANGED <<playlist, strategy, history, stable, configured, reconf>>

configureCustom_createStrategy ==
    /\ pc = "configureCustom_createStrategy"
    /\ Facade_createStrategy("CUSTOM_QUEUE", "configureCustom_setQueue")
    /\ UNCHANGED <<playlist, device, configured>>

\* dynamic_cast<CustomQueueStrategy*>, then cqs->setQueue(customQueue)
configureCustom_setQueue(customQueue) ==
    /\ pc = "configureCustom_setQueue"
    /\ IF strategy.kind # "CUSTOM_QUEUE"
       THEN /\ last' = [last EXCEPT !.err = CastFailed]
            /\ pc' = "idle"
            /\ frame' = NoFrame
            /\ UNCHANGED strategy
       ELSE /\ strategy' = CustomQueueStrategy_setQueue(strategy, customQueue)
            /\ pc' = "configureCustom_setDevice"
            /\ UNCHANGED <<last, frame>>
    /\ UNCHANGED <<playlist, device, engine, history, stable, configured, reconf>>

configureCustom_setDevice ==
    /\ pc = "configureCustom_setDevice"
    /\ engine' = AudioEngine_setDevice(engine, Live)
    /\ pc' = "configureCustom_setStrategy"
    /\ UNCHANGED <<playlist, device, strategy, frame, last, history, stable,
                   configured, reconf>>

configureCustom_setStrategy ==
    /\ pc = "configureCustom_setStrategy"
    /\ Facade_setStrategy("configureCustom_loadPlaylist")
    /\ UNCHANGED <<playlist, device, frame, last, configured, reconf>>

configureCustom_loadPlaylist ==
    /\ pc = "configureCustom_loadPlaylist"
    /\ engine' = AudioEngine_loadPlaylist(engine, Live)
    /\ pc' = "idle"
    /\ frame' = NoFrame
    /\ configured' = TRUE
    /\ UNCHANGED <<playlist, device, strategy, last, history, stable, reconf>>

----------------------------------------------------------------------------
(* MusicPlayerFacade::playNext and playMultiple *)

playNext ==
    /\ pc = "idle"
    /\ Len(history) < MaxCalls
    /\ \E o \in AudioEngine_playNext :
          /\ strategy' = o.self
          /\ last' = Observed(Call("playNext"), o)
          /\ history' = Followed(history, o)
    /\ UNCHANGED <<playlist, device, engine, pc, frame, stable, configured, reconf>>

playMultiple(count) ==
    /\ pc = "idle"
    /\ Len(history) + count <= MaxCalls
    /\ pc' = "playMultiple"
    /\ frame' = [NoFrame EXCEPT !.count = count]
    /\ last' = Call("playMultiple")
    /\ UNCHANGED <<playlist, device, strategy, engine, history, stable, configured,
                   reconf>>

\* i <= count
playMultiple_test_le(i, count) == i <= count

\* the loop test i < count
playMultiple_test(i, count) == i < count

\* for (size_t i = 0; i < count; ++i) playNext();  one loop test a step; an
\* exception leaves the loop and the call
playMultiple_loop ==
    /\ pc = "playMultiple"
    /\ IF playMultiple_test(frame.i, frame.count)
       THEN \E o \in AudioEngine_playNext :
               /\ strategy' = o.self
               /\ last' = Observed(last, o)
               /\ history' = Followed(history, o)
               /\ IF o.err = None
                  THEN frame' = [frame EXCEPT !.i = frame.i + 1] /\ pc' = pc
                  ELSE frame' = NoFrame /\ pc' = "idle"
       ELSE /\ pc' = "idle"
            /\ frame' = NoFrame
            /\ UNCHANGED <<strategy, last, history>>
    /\ UNCHANGED <<playlist, device, engine, stable, configured, reconf>>

----------------------------------------------------------------------------
(* The facade driven by its single caller *)

Next ==
    \/ \E song \in Songs : addSongToPlaylist(song)
    \/ \E index \in Indices : removeSongFromPlaylist(index)
    \/ \E dt \in DeviceType : configure(dt)
    \/ \E pst \in PlayStrategyType : configure_createStrategy(pst)
    \/ configure_setDevice
    \/ configure_setStrategy
    \/ configure_loadPlaylist
    \/ \E dt \in DeviceType : configureCustom(dt)
    \/ configureCustom_createStrategy
    \/ \E customQueue \in Queues : configureCustom_setQueue(customQueue)
    \/ configureCustom_setDevice
    \/ configureCustom_setStrategy
    \/ configureCustom_loadPlaylist
    \/ playNext
    \/ \E count \in 0..MaxCount : playMultiple(count)
    \/ playMultiple_loop

Spec == Init /\ [][Next]_vars

----------------------------------------------------------------------------
(* A PlayStrategy object driven directly: a Playlist and a strategy from   *)
(* StrategyManager::createStrategy, then any sequence of getNextSong,      *)
(* reset, setQueue, AudioEngine::setStrategy and playlist changes.         *)
(* last.out holds the Song returned.                                       *)

InitStrategy ==
    /\ playlist \in BoundedSeq(Songs, MaxLen)
    /\ strategy \in {StrategyManager_createStrategy(t) : t \in PlayStrategyType}
    /\ device = NoDevice
    /\ engine = NullEngine
    /\ pc = "idle"
    /\ frame = NoFrame
    /\ last = Call(None)
    /\ history = <<>>
    /\ stable = TRUE
    /\ configured = FALSE
    /\ reconf = FALSE

strategy_getNextSong ==
    /\ Len(history) < MaxCalls
    /\ \E r \in PlayStrategy_getNextSong(strategy, playlist) :
          LET o == [err |-> r.err,
                    out |-> IF r.err = None THEN <<Playlist_at(playlist, r.idx)>>
                            ELSE <<>>,
                    idx |-> r.idx]
          IN  /\ strategy' = r.self
              /\ last' = Observed(Call("getNextSong"), o)
              /\ history' = Followed(history, o)
    /\ UNCHANGED <<playlist, device, engine, pc, frame, stable, configured, reconf>>

strategy_reset ==
    /\ strategy' = PlayStrategy_reset(strategy)
    /\ last' = Call("reset")
    /\ history' = <<>>
    /\ stable' = TRUE
    /\ reconf' = (Cursor(strategy) # 0)
    /\ UNCHANGED <<playlist, device, engine, pc, frame, configured>>

strategy_setQueue(q) ==
    /\ strategy.kind = "CUSTOM_QUEUE"
    /\ strategy' = CustomQueueStrategy_setQueue(strategy, q)
    /\ last' = Call("setQueue")
    /\ history' = <<>>
    /\ stable' = TRUE
    /\ reconf' = FALSE
    /\ UNCHANGED <<playlist, device, engine, pc, frame, configured>>

\* an AudioEngine is handed the strategy: engine.setStrategy(&strategy)
strategy_setStrategy ==
    /\ LET r == AudioEngine_setStrategy(engine, Live, strategy)
       IN  engine' = r.engine /\ strategy' = r.obj
    /\ last' = Call("setStrategy")
    /\ history' = <<>>
    /\ stable' = TRUE
    /\ reconf' = (Cursor(strategy) # 0)
    /\ UNCHANGED <<playlist, device, pc, frame, configured>>

NextStrategy ==
    \/ strategy_getNextSong
    \/ strategy_reset
    \/ strategy_setStrategy
    \/ \E q \in Queues : strategy_setQueue(q)
    \/ \E song \in Songs : addSongToPlaylist(song)
    \/ \E index \in Indices : removeSongFromPlaylist(index)

SpecStrategy == InitStrategy /\ [][NextStrategy]_vars

----------------------------------------------------------------------------
(* Claims *)

\* C1: on a non-empty playlist of size N that is not changed meanwhile, the
\* first N getNextSong calls on a freshly created Sequential strategy succeed
\* and return the tracks at positions 0, 1, ..., N-1 in that order, and so do
\* the first N calls after a reset(), whatever was called before it.
C1_SequentialInOrder ==
    (strategy.kind = "SEQUENTIAL" /\ stable /\ Len(playlist) > 0) =>
        /\ \A k \in 1..Len(history) : k <= Len(playlist) => history[k] = k - 1
        /\ last.op = "getNextSong" =>
              /\ last.err = None
              /\ Len(history) \in 1..Len(playlist) =>
                    last.out = <<playlist[Len(history)]>>

\* a reset() after the cursor had advanced, then N = MaxLen calls
C1_Witness ==
    /\ strategy.kind = "SEQUENTIAL" /\ stable /\ reconf
    /\ Len(playlist) = MaxLen
    /\ last.op = "getNextSong"
    /\ history = [k \in 1..MaxLen |-> k - 1]

\* C2: Sequential traversal is cyclic: on an unchanged non-empty playlist of
\* size N, with no reset in between, the (N+k)-th getNextSong call returns the
\* position the k-th call returned, for every k >= 1.
C2_SequentialCyclic ==
    (strategy.kind = "SEQUENTIAL" /\ stable /\ Len(playlist) > 0) =>
        \A k \in 1..Len(history) :
            Len(playlist) + k <= Len(history) =>
                history[Len(playlist) + k] = history[k]

\* two full rounds over the longest playlist
C2_Witness ==
    /\ strategy.kind = "SEQUENTIAL" /\ stable
    /\ Len(playlist) = MaxLen
    /\ Len(history) = 2 * MaxLen
    /\ history[2 * MaxLen] = history[MaxLen]

\* the lines the last call rendered are the tracks at the positions it read,
\* on the device selected now
RenderedAsRead ==
    /\ Len(last.out) = Len(last.idx)
    /\ \A j \in 1..Len(last.idx) :
          last.out[j] = IAudioOutputDevice_playSound(device,
                                                     Playlist_at(playlist, last.idx[j]))

\* the step is one facade playNext() call
PlayNextStep == pc = "idle" /\ pc' = "idle" /\ last'.op = "playNext"

QueueInRange(q, n) == \A j \in 1..Len(q) : q[j] < n

\* C3: after configureCustom(device, queue) with a non-empty queue of length
\* L whose entries are all below the playlist size, and the playlist
\* unchanged, every playNext succeeds and the k-th one renders the track at
\* playlist position queue[(k-1) mod L].
C3_CustomQueueOrder ==
    LET q == strategy.queueIndices
    IN  (/\ strategy.kind = "CUSTOM_QUEUE" /\ stable
         /\ q # <<>> /\ QueueInRange(q, Len(playlist))) =>
            /\ \A k \in 1..Len(history) : history[k] = q[((k - 1) % Len(q)) + 1]
            /\ last.op \in {"playNext", "playMultiple"} =>
                  /\ last.err = None
                  /\ RenderedAsRead
                  /\ Len(last.idx) <= Len(history)
                  /\ \A j \in 1..Len(last.idx) :
                        last.idx[j] = history[Len(history) - Len(last.idx) + j]

\* queue [1,0] over two tracks, played twice round
C3_Witness ==
    /\ strategy.kind = "CUSTOM_QUEUE" /\ stable
    /\ strategy.queueIndices = <<1, 0>>
    /\ Len(playlist) = 2 /\ playlist[1] # playlist[2]
    /\ last.op = "playNext"
    /\ history = <<1, 0, 1, 0>>

\* C4: CustomQueue range checking is lazy: configureCustom never fails on a
\* queue with entries >= playlist.size(); a playNext whose cursor is on an
\* entry below the playlist's current size succeeds and renders that
\* position; a playNext whose cursor is on an entry >= the current size
\* fails with IndexOutOfRange and renders nothing.
C4_LazyRangeCheck ==
    /\ [](last.op = "configureCustom" => last.err = None)
    /\ [][(/\ PlayNextStep
           /\ ~AudioEngine_unbound(engine)
           /\ strategy.kind = "CUSTOM_QUEUE"
           /\ strategy.queueIndices # <<>>
           /\ Len(playlist) > 0) =>
             LET q == strategy.queueIndices
                 entry == q[(strategy.pos % Len(q)) + 1]
             IN  IF entry >= Len(playlist)
                 THEN last'.err = IndexOutOfRange /\ last'.out = <<>>
                 ELSE /\ last'.err = None
                      /\ last'.idx = <<entry>>
                      /\ RenderedAsRead']_vars

\* the cursor passed an in-range entry and is stuck on one that is out of
\* range for the playlist as it is now, after the playlist changed
C4_Witness ==
    /\ strategy.kind = "CUSTOM_QUEUE" /\ ~stable
    /\ strategy.queueIndices = <<0, 1>> /\ strategy.pos = 1
    /\ Len(playlist) = 1
    /\ last.op = "playNext" /\ last.err = IndexOutOfRange

\* C5: as long as no configure or configureCustom call has completed,
\* whatever was added or removed, playNext() fails with NotConfigured and
\* renders nothing.
C5_NotConfigured ==
    (~configured /\ last.op = "playNext") =>
        last.err = NotConfigured /\ last.out = <<>>

C5_Witness ==
    /\ ~configured /\ last.op = "playNext" /\ last.err = NotConfigured
    /\ Len(playlist) > 0

\* C6: re-configuring resets the traversal cursor: the playNext that follows
\* a completed configure(device, Sequential) renders playlist position 0, and
\* the one that follows configureCustom(device, queue) renders position
\* queue[0], also when the strategy replaced was of the same kind.
C6_ReconfigureResets ==
    [][(/\ PlayNextStep
        /\ last.op \in {"configure", "configureCustom"}
        /\ last'.err = None) =>
          /\ strategy.kind = "SEQUENTIAL" => last'.idx = <<0>>
          /\ strategy.kind = "CUSTOM_QUEUE" =>
                last'.idx = <<strategy.queueIndices[1]>>
          /\ RenderedAsRead']_vars

\* the first playNext after a configure that replaced an advanced Sequential
\* strategy by a new Sequential one
C6_Witness ==
    /\ reconf /\ strategy.kind = "SEQUENTIAL" /\ stable
    /\ Len(playlist) = MaxLen
    /\ last.op = "playNext" /\ last.idx = <<0>> /\ history = <<0>>

\* C7: playMultiple(count) calls playNext() once per iteration, in order:
\* with no failure it returns after exactly count calls (none for count = 0);
\* if the k-th call fails, the call ends there with exactly the error that
\* playNext threw, after exactly k-1 rendered tracks.
C7_PlayMultiple ==
    /\ [](pc = "playMultiple" =>
            /\ last.err = None
            /\ frame.i <= frame.count
            /\ Len(last.out) = frame.i)
    /\ [][pc = "playMultiple" =>
            IF last'.err # None
            THEN /\ pc' = "idle"
                 /\ frame.i < frame.count
                 /\ last'.err \in {o.err : o \in AudioEngine_playNext}
                 /\ last'.out = last.out
                 /\ Len(last'.out) = frame.i
            ELSE IF pc' = "idle"
            THEN /\ frame.i = frame.count
                 /\ last'.out = last.out
                 /\ Len(last'.out) = frame.count
            ELSE /\ pc' = "playMultiple"
                 /\ frame.i < frame.count
                 /\ frame' = [frame EXCEPT !.i = frame.i + 1]
                 /\ \E o \in AudioEngine_playNext :
                       /\ o.err = None
                       /\ last'.out = last.out \o o.out
                       /\ strategy' = o.self]_vars

\* playMultiple(MaxCount) that failed at its last iteration
C7_Witness ==
    /\ pc = "idle" /\ last.op = "playMultiple"
    /\ last.err = IndexOutOfRange
    /\ Len(last.out) = MaxCount - 1

\* C8: removeSongFromPlaylist(index) with index >= the playlist's size (index
\* = size and the empty playlist included) leaves the playlist, the engine's
\* bindings, the device and the strategy with its cursor unchanged and throws
\* nothing.
C8_RemoveOutOfRange ==
    [][\A index \in Indices :
          (removeSongFromPlaylist(index) /\ index >= Len(playlist)) =>
              /\ playlist' = playlist
              /\ last'.err = None
              /\ engine' = engine
              /\ device' = device
              /\ strategy' = strategy]_vars

\* a removal that changed nothing, with the engine bound and the cursor
\* advanced
C8_Witness ==
    /\ last.op = "removeSongFromPlaylist" /\ stable
    /\ configured /\ engine.strategy = Live
    /\ Len(playlist) > 0
    /\ history # <<>> /\ Cursor(strategy) # 0

\* C9: at no step of configure or configureCustom does the engine hold a
\* pointer to a device or strategy that has already been destroyed.
C9_NoDanglingBinding ==
    engine.device # Dangling /\ engine.strategy # Dangling

\* C10: with the Random strategy configured, every playNext on a non-empty
\* playlist of size N succeeds and renders the track at a position in
\* [0, N), whatever rand() returns; on an empty playlist it fails with
\* EmptyPlaylist and renders nothing; reset() leaves the strategy as it was.
C10_Random ==
    /\ []((strategy.kind = "RANDOM" /\ last.op = "playNext") =>
            IF Len(playlist) = 0
            THEN last.err = EmptyPlaylist /\ last.out = <<>>
            ELSE /\ last.err = None
                 /\ Len(last.idx) = 1
                 /\ last.idx[1] \in 0..(Len(playlist) - 1)
                 /\ RenderedAsRead)
    /\ [][(pc = "configure_setStrategy" /\ strategy.kind = "RANDOM") =>
             strategy' = strategy /\ playlist' = playlist /\ device' = device]_vars

\* rand() returned a value >= N and the last track was rendered
C10_Witness ==
    /\ strategy.kind = "RANDOM" /\ last.op = "playNext"
    /\ Len(playlist) = MaxLen
    /\ last.idx = <<MaxLen - 1>>

\* C11: a CustomQueue strategy obtained through configure(device,
\* CUSTOM_QUEUE) has an empty queue; while the queue of the configured
\* CustomQueue strategy is empty (generic path, or configureCustom with an
\* empty queue) and the playlist is not, every playNext fails with
\* EmptyQueue, renders nothing and reads no playlist position.
C11_EmptyQueue ==
    /\ (/\ pc \in {"configure_setDevice", "configure_setStrategy",
                   "configure_loadPlaylist"}
        /\ strategy.kind = "CUSTOM_QUEUE") => strategy.queueIndices = <<>>
    /\ (/\ configured /\ pc = "idle"
        /\ engine.strategy = Live
        /\ strategy.kind = "CUSTOM_QUEUE" /\ strategy.queueIndices = <<>>
        /\ Len(playlist) > 0
        /\ last.op = "playNext") =>
           /\ last.err = EmptyQueue
           /\ last.out = <<>>
           /\ last.idx = <<>>

\* a playNext that failed with EmptyQueue on a full playlist
C11_Witness ==
    /\ configured /\ pc = "idle"
    /\ strategy.kind = "CUSTOM_QUEUE" /\ strategy.queueIndices = <<>>
    /\ Len(playlist) = MaxLen
    /\ last.op = "playNext" /\ last.err = EmptyQueue /\ last.out = <<>>

\* C12: the playlist is empty when the session starts; addSongToPlaylist
\* appends its track at the end and throws nothing; every step of configure,
\* configureCustom, playNext and playMultiple, failing or not, leaves the
\* playlist as it was, so only addSongToPlaylist and removeSongFromPlaylist
\* change it.
C12_PlaylistFrame ==
    /\ playlist = <<>>
    /\ [][/\ \A song \in Songs :
                addSongToPlaylist(song) =>
                    /\ playlist' = Append(playlist, song)
                    /\ last'.err = None
          /\ (\/ pc # "idle"
              \/ last'.op \notin {"addSongToPlaylist", "removeSongFromPlaylist"})
                => playlist' = playlist]_vars

\* a playMultiple that failed on a configured session leaves a playlist of two
\* different tracks, the second appended after the first
C12_Witness ==
    /\ configured /\ pc = "idle"
    /\ last.op = "playMultiple" /\ last.err # None
    /\ Len(playlist) = 2 /\ playlist[1] # playlist[2]

\* the entry of its queue a CustomQueue strategy is at
CurrentEntry(self) ==
    self.queueIndices[(self.pos % Len(self.queueIndices)) + 1]

\* C13: a playNext throws exactly what the engine or the strategy raises
\* (NotConfigured when a binding is missing, else EmptyPlaylist, EmptyQueue or
\* IndexOutOfRange from the strategy), and a playNext that throws renders
\* nothing; when none of them raises, the call throws nothing and renders one
\* line: no error is swallowed and no fallback track is played.
C13_ErrorsPropagate ==
    [][PlayNextStep =>
         LET raised ==
               IF AudioEngine_unbound(engine) THEN NotConfigured
               ELSE IF Len(playlist) = 0 THEN EmptyPlaylist
               ELSE IF strategy.kind # "CUSTOM_QUEUE" THEN None
               ELSE IF strategy.queueIndices = <<>> THEN EmptyQueue
               ELSE IF CurrentEntry(strategy) >= Len(playlist) THEN IndexOutOfRange
               ELSE None
         IN  /\ last'.err = raised
             /\ raised # None => last'.out = <<>> /\ last'.idx = <<>>
             /\ raised = None => Len(last'.out) = 1]_vars

\* a playNext that failed in the strategy although the playlist has a track
\* that a fallback could have played
C13_Witness ==
    /\ configured /\ pc = "idle"
    /\ Len(playlist) > 0
    /\ last.op = "playNext" /\ last.err = IndexOutOfRange /\ last.out = <<>>

\* C14: CustomQueue getNextSong checks in a fixed order: an empty playlist
\* gives EmptyPlaylist, whatever the queue holds; else an empty queue gives
\* EmptyQueue; else a current entry >= the playlist size gives
\* IndexOutOfRange; else it returns the track at the current entry and
\* advances pos to (pos + 1) mod len(queue).  A failing call changes nothing.
C14_CustomPrecedence ==
    [][(strategy.kind = "CUSTOM_QUEUE" /\ last'.op = "getNextSong") =>
         LET q == strategy.queueIndices
         IN  IF Len(playlist) = 0
             THEN last'.err = EmptyPlaylist /\ strategy' = strategy
             ELSE IF q = <<>>
             THEN last'.err = EmptyQueue /\ strategy' = strategy
             ELSE IF CurrentEntry(strategy) >= Len(playlist)
             THEN last'.err = IndexOutOfRange /\ strategy' = strategy
             ELSE /\ last'.err = None
                  /\ last'.idx = <<CurrentEntry(strategy)>>
                  /\ last'.out = <<playlist[CurrentEntry(strategy) + 1]>>
                  /\ strategy' = [strategy EXCEPT !.pos = (strategy.pos + 1) % Len(q)]]_vars

\* EmptyPlaylist although the current queue entry is out of range as well
C14_Witness ==
    /\ strategy.kind = "CUSTOM_QUEUE"
    /\ playlist = <<>>
    /\ strategy.queueIndices # <<>> /\ CurrentEntry(strategy) >= Len(playlist)
    /\ last.op = "getNextSong" /\ last.err = EmptyPlaylist

\* the API object and the mode word of the adapter built for a device type
SinkOf(dt) ==
    CASE dt = "BLUETOOTH" -> [api |-> "BluetoothSpeakerAPI", mode |-> "Bluetooth"]
      [] dt = "WIRED" -> [api |-> "WiredSpeakerAPI", mode |-> "Wired"]
      [] dt = "HEADPHONES" -> [api |-> "HeadphonesAPI", mode |-> "Headphones"]

\* C15: the device manager holds the adapter of the device type given to the
\* most recent configure / configureCustom call (only those calls change
\* it); every successful playNext renders exactly one line, and every line a
\* playNext or playMultiple renders goes to the API of that device type,
\* with its mode word, and carries the track the strategy chose.  Hence
\* after a re-configuration nothing is rendered on the previous device.
C15_RenderOnCurrentDevice ==
    /\ [](last.op \in {"playNext", "playMultiple"} =>
            /\ RenderedAsRead
            /\ \A j \in 1..Len(last.out) :
                  \E dt \in DeviceType :
                      /\ device = DeviceFactory_create(dt)
                      /\ last.out[j].api = SinkOf(dt).api
                      /\ last.out[j].mode = SinkOf(dt).mode
            /\ (last.op = "playNext" /\ last.err = None) => Len(last.out) = 1)
    /\ [][/\ \A dt \in DeviceType :
                (configure(dt) \/ configureCustom(dt)) =>
                    device' = DeviceFactory_create(dt)
          /\ device' # device =>
                pc = "idle" /\ last'.op \in {"configure", "configureCustom"}]_vars

\* a line rendered on the wired speaker after a re-configuration that
\* replaced a strategy already in use
C15_Witness ==
    /\ reconf /\ configured /\ pc = "idle"
    /\ device = "WiredSpeakerAdapter"
    /\ last.op = "playNext" /\ last.err = None
    /\ Len(last.out) = 1 /\ last.out[1].api = "WiredSpeakerAPI"

C17_CustomReset ==
    /\ [][(strategy.kind = "CUSTOM_QUEUE" /\ last'.op \in {"reset", "setStrategy"}) =>
            /\ strategy'.pos = 0
            /\ strategy'.queueIndices = strategy.queueIndices]_vars
    /\ [][(/\ strategy.kind = "CUSTOM_QUEUE"
           /\ last.op \in {"reset", "setStrategy"}
           /\ last'.op = "getNextSong" /\ last'.err = None) =>
            /\ last'.idx = <<strategy.queueIndices[1]>>
            /\ last'.out = <<Playlist_at(playlist, strategy.queueIndices[1])>>]_vars
    /\ []((strategy.kind = "CUSTOM_QUEUE" /\ stable /\ history # <<>>) =>
             history[1] = strategy.queueIndices[1])

\* reset() with the cursor advanced inside a two-entry queue, then one call
\* that returned queue[0]
C17_Witness ==
    /\ strategy.kind = "CUSTOM_QUEUE" /\ reconf /\ stable
    /\ Len(strategy.queueIndices) = 2
    /\ strategy.queueIndices[1] # strategy.queueIndices[2]
    /\ last.op = "getNextSong" /\ last.err = None
    /\ history = <<strategy.queueIndices[1]>>

\* C18: a playNext that fails leaves the strategy object, cursor included,
\* as it was, for every kind of strategy; after a failed playNext the next
\* one fails with the same error; a CustomQueue cursor that reached an
\* out-of-range entry stays on that entry.
C18_FailureKeepsCursor ==
    /\ [][(PlayNextStep /\ last'.err # None) => strategy' = strategy]_vars
    /\ []((pc = "idle" /\ last.op = "playNext" /\ last.err # None) =>
            /\ \A o \in AudioEngine_playNext :
                  o.err = last.err /\ o.self = strategy /\ o.out = <<>>
            /\ last.err = IndexOutOfRange =>
                  /\ strategy.kind = "CUSTOM_QUEUE"
                  /\ CurrentEntry(strategy) >= Len(playlist))

\* the cursor went past queue entry 0 and is stuck on entry 2 of an unchanged
\* two-track playlist
C18_Witness ==
    /\ strategy.kind = "CUSTOM_QUEUE" /\ stable
    /\ strategy.queueIndices = <<0, 2>> /\ strategy.pos = 1
    /\ Len(playlist) = 2
    /\ history = <<0>>
    /\ last.op = "playNext" /\ last.err = IndexOutOfRange

\* C19: with Sequential configured, whatever was added or removed since,
\* every playNext on a non-empty playlist succeeds, reads position
\* index mod size (below the size, also when removals left index >= size)
\* and leaves index = (index + 1) mod size, below the size; adding and
\* removing leave the cursor alone.
C19_SequentialUnderChange ==
    /\ [][(/\ PlayNextStep
           /\ ~AudioEngine_unbound(engine)
           /\ strategy.kind = "SEQUENTIAL"
           /\ Len(playlist) > 0) =>
            /\ last'.err = None
            /\ last'.idx = <<strategy.index % Len(playlist)>>
            /\ last'.idx[1] < Len(playlist)
            /\ RenderedAsRead'
            /\ last'.out[1].title # Indeterminate.title
            /\ strategy'.index = (strategy.index + 1) % Len(playlist)
            /\ strategy'.index < Len(playlist)]_vars
    /\ [][(pc = "idle"
           /\ last'.op \in {"addSongToPlaylist", "removeSongFromPlaylist"}) =>
            strategy' = strategy]_vars

\* a successful playNext on a Sequential strategy whose playlist has been
\* changed to a single track since it was configured
C19_Witness ==
    /\ configured /\ pc = "idle"
    /\ strategy.kind = "SEQUENTIAL" /\ ~stable
    /\ Len(playlist) = 1
    /\ last.op = "playNext" /\ last.err = None /\ last.idx = <<0>>
    /\ strategy.index = 0

\* C20: between facade calls the engine's three pointers are all null (no
\* configure or configureCustom call has completed) or all set, and then
\* they point to the playlist, to the strategy the facade owns now and to
\* the adapter the device manager owns now; the playlist is seen as it is
\* now, so a playNext after tracks were added succeeds without a new
\* configure call.
C20_BindingsConsistent ==
    /\ pc = "idle" =>
          IF configured
          THEN /\ engine = [playlist |-> Live, strategy |-> Live, device |-> Live]
               /\ strategy # NoStrategy
               /\ device # NoDevice
          ELSE engine = NullEngine
    /\ (/\ pc = "idle" /\ configured
        /\ last.op = "playNext"
        /\ strategy.kind \in {"SEQUENTIAL", "RANDOM"}) =>
           IF Len(playlist) = 0
           THEN last.err = EmptyPlaylist
           ELSE last.err = None /\ RenderedAsRead

\* the last of the tracks is rendered after the playlist changed, with no
\* configure call in between
C20_Witness ==
    /\ configured /\ pc = "idle" /\ ~stable
    /\ engine.playlist = Live
    /\ strategy.kind = "SEQUENTIAL"
    /\ Len(playlist) = MaxLen
    /\ last.op = "playNext" /\ last.err = None /\ last.idx = <<MaxLen - 1>>

====
